---------------------------- MODULE Spec2Model ----------------------------
(***************************************************************************)
(* rabbithole: the research-window lifecycle tracker of src/main.go.       *)
(*                                                                         *)
(* Strings are sequences of one-character strings, so that formatting and  *)
(* parsing of window IDs are computed, not assumed.  Go's int (64 bits on  *)
(* the only build target, amd64) is a sign and a magnitude; a magnitude is *)
(* a little-endian sequence of base-16 digits without a leading zero.      *)
(***************************************************************************)
EXTENDS Integers, Sequences, FiniteSets, TLC

(***************************************************************************)
(* Characters and digits                                                   *)
(***************************************************************************)
HexChars == <<"0","1","2","3","4","5","6","7","8","9","a","b","c","d","e","f">>

DecChars == {"0","1","2","3","4","5","6","7","8","9"}

\* ch - '0' of strconv.Atoi, for a character already known to be a digit
DigitVal(c) == CHOOSE v \in 0..9 : HexChars[v + 1] = c

\* strings.HasPrefix
HasPrefix(s, p) == Len(s) >= Len(p) /\ SubSeq(s, 1, Len(p)) = p

Prefix0x == <<"0", "x">>

RECURSIVE Reverse(_)
Reverse(s) == IF s = <<>> THEN <<>> ELSE Reverse(Tail(s)) \o <<Head(s)>>

RECURSIVE Zeros(_)
Zeros(k) == IF k <= 0 THEN <<>> ELSE <<"0">> \o Zeros(k - 1)

(***************************************************************************)
(* 64-bit integer arithmetic on magnitudes                                 *)
(***************************************************************************)
\* n*10 + carry on a little-endian base-16 magnitude (the n = n*10 + ch step)
RECURSIVE MulAdd10(_, _)
MulAdd10(le, carry) ==
    IF le = <<>>
    THEN IF carry = 0 THEN <<>> ELSE <<carry>>
    ELSE LET v == Head(le) * 10 + carry
         IN  <<v % 16>> \o MulAdd10(Tail(le), v \div 16)

\* the magnitude of a run of decimal digits, most significant first
RECURSIVE ParseDigits(_, _)
ParseDigits(s, acc) ==
    IF s = <<>> THEN acc
    ELSE ParseDigits(Tail(s), MulAdd10(acc, DigitVal(Head(s))))

\* a magnitude with its high zero digits dropped
RECURSIVE Trim(_)
Trim(le) ==
    IF le = <<>> THEN <<>>
    ELSE IF le[Len(le)] = 0 THEN Trim(SubSeq(le, 1, Len(le) - 1)) ELSE le

\* whether a magnitude fits Go's int: at most 2^63-1, or 2^63 when negative
FitsInt64(mag, neg) ==
    \/ Len(mag) < 16
    \/ /\ Len(mag) = 16
       /\ \/ mag[16] <= 7
          \/ neg /\ mag[16] = 8 /\ \A i \in 1..15 : mag[i] = 0

\* strconv.Atoi: an optional sign, then decimal digits only, in int's range
Atoi(s) ==
    LET signed == s # <<>> /\ Head(s) \in {"+", "-"}
        body   == IF signed THEN Tail(s) ELSE s
        syntax == body # <<>> /\ \A i \in 1..Len(body) : body[i] \in DecChars
        mag    == IF syntax THEN Trim(ParseDigits(body, <<>>)) ELSE <<>>
        neg    == signed /\ Head(s) = "-"
    IN  [ok  |-> syntax /\ FitsInt64(mag, neg),
         neg |-> neg /\ mag # <<>>,
         mag |-> mag]

\* the digits of a magnitude in lowercase hex, most significant first
HexDigits(mag) ==
    IF mag = <<>> THEN <<"0">>
    ELSE Reverse([i \in 1..Len(mag) |-> HexChars[mag[i] + 1]])

\* fmt's %0Nx of an int: zero-padded to the width, the sign taking one column
FormatHexWidth(neg, mag, width) ==
    LET digits == HexDigits(mag)
        prec   == IF neg THEN width - 1 ELSE width
        body   == Zeros(prec - Len(digits)) \o digits
    IN  IF neg THEN <<"-">> \o body ELSE body

\* a formatter that forgets the width
Sprintf0x08x_NoPad(neg, mag) == Prefix0x \o FormatHexWidth(neg, mag, 0)

\* a formatter that forgets the "0x"
Sprintf0x08x_NoPrefix(neg, mag) == FormatHexWidth(neg, mag, 8)

\* fmt.Sprintf("0x%08x", val)
Sprintf0x08x(neg, mag) == Prefix0x \o FormatHexWidth(neg, mag, 8)

(***************************************************************************)
(* WindowID Normalizer                                                     *)
(***************************************************************************)
normalizeWindowID(wid) ==
    IF HasPrefix(wid, Prefix0x) THEN wid
    ELSE LET r == Atoi(wid)
         IN  IF r.ok THEN Sprintf0x08x(r.neg, r.mag) ELSE wid

(***************************************************************************)
(* Bounds of the model                                                     *)
(***************************************************************************)
\* windows the desktop can ever hold
MaxWin == 3
\* ticks of the wall clock that stamps created_at
MaxTime == 1
\* length of the exhaustively enumerated normalizer inputs
MaxStrLen == 3
\* low 16-bit halves 0..MaxLow of the numbers fed to the normalizer
MaxLow == 40

(***************************************************************************)
(* Window IDs as the external tools print them                             *)
(***************************************************************************)
WinIdx == 1..MaxWin

\* the magnitude of a natural number
RECURSIVE MagOf(_)
MagOf(n) == IF n = 0 THEN <<>> ELSE <<n % 16>> \o MagOf(n \div 16)

\* the X11 resource ID of the i-th window (client base plus a serial)
XidOf(i) == MagOf(2097152 * i + 10 + i)

\* one step of printing a number in base 10: the quotient and remainder by 10
RECURSIVE Div10(_, _)
Div10(be, rem) ==
    IF be = <<>> THEN [q |-> <<>>, r |-> rem]
    ELSE LET cur  == rem * 16 + Head(be)
             rest == Div10(Tail(be), cur % 10)
         IN  [q |-> <<cur \div 10>> \o rest.q, r |-> rest.r]

RECURSIVE DecDigits(_)
DecDigits(mag) ==
    IF mag = <<>> THEN <<>>
    ELSE LET d == Div10(Reverse(mag), 0)
         IN  DecDigits(Trim(Reverse(d.q))) \o <<HexChars[d.r + 1]>>

\* a window ID in base 10, as xdotool getactivewindow prints it
DecForm(mag) == IF mag = <<>> THEN <<"0">> ELSE DecDigits(mag)

\* a window ID as wmctrl -l prints it: 0x and eight lowercase hex digits
HexForm(mag) == Prefix0x \o FormatHexWidth(FALSE, mag, 8)

\* the ID of each window as wmctrl prints it, and as xdotool prints it
HexOf == [i \in WinIdx |-> HexForm(XidOf(i))]
DecOf == [i \in WinIdx |-> DecForm(XidOf(i))]

\* both textual forms of the i-th window's ID
RawForms(i) == {DecOf[i], HexOf[i]}

(***************************************************************************)
(* Research Window Registry: the research_windows table                    *)
(***************************************************************************)
Row(key, ts) == [window_id |-> key, created_at |-> ts]

\* INSERT without the primary key's conflict resolution
InsertPlain(table, key, ts) == table \cup {Row(key, ts)}

\* INSERT OR REPLACE on window_id TEXT PRIMARY KEY
InsertOrReplace(table, key, ts) ==
    {r \in table : r.window_id # key} \cup {Row(key, ts)}

\* DELETE FROM research_windows WHERE window_id = ?
DeleteWhere(table, key) == {r \in table : r.window_id # key}

\* SELECT COUNT(*) FROM research_windows WHERE window_id = ?
CountWhere(table, key) == Cardinality({r \in table : r.window_id = key})

\* SELECT window_id FROM research_windows
storedWIDs(table) == {r.window_id : r \in table}

\* an upsert that stores the ID as given
addResearchWindow_Raw(table, wid, ts) == InsertOrReplace(table, wid, ts)

\* an upsert that does not replace
addResearchWindow_Dup(table, wid, ts) ==
    InsertPlain(table, normalizeWindowID(wid), ts)

addResearchWindow(table, wid, ts) ==
    InsertOrReplace(table, normalizeWindowID(wid), ts)

\* a delete that lost its WHERE clause
removeResearchWindow_All(table, wid) == {}

removeResearchWindow(table, wid) == DeleteWhere(table, normalizeWindowID(wid))

\* a membership query that lost its WHERE clause
isTracked_Any(table, wid) == table # {}

\* the membership test of the close flow, on the normalized active window ID
isTracked(table, wid) == CountWhere(table, normalizeWindowID(wid)) # 0

(***************************************************************************)
(* State                                                                   *)
(***************************************************************************)
VARIABLES
    \* the normalizer under test: its argument, the number the argument was
    \* printed from (or NoNum), and the results of calling it once and again
    nIn, nRef, nOut,
    \* the registry table, the wall clock, and the last registry call
    research_windows, now, regOp,
    \* the desktop: each window unborn, live (a Firefox window or another
    \* application's) or dead
    win,
    \* the running command: its position, its exit status, and the locals
    \* of openBrowserInSideWindow, waitForNewFirefoxWindow (elapsed is
    \* time.Now() minus the detector's start, in ms) and
    \* closeActiveResearchWindow
    pc, ret, beforeWIDs, elapsed, firefoxWID, detResult, activeWID,
    \* what the run has seen: the detector's last poll, whether a poll has
    \* failed, the Firefox windows open at launch, and the tools whose
    \* output the last ID comparison used as printed
    lastPoll, sawFail, existedAtLaunch, cmpLog,
    \* the window the Firefox started by the running command has mapped
    \* (0: none yet)
    ownWin,
    \* what the running command has done: the external tools it has run, the
    \* registry statements that failed, what its cleanupDeadWindows call
    \* found and returned, and the window-placing calls that failed
    calls, storeErr, recon, toolErr,
    \* selection capture: config.Behavior.SelectionMethod, what xsel does
    \* for each selection, the position of captureSelectionSafely, the
    \* selection being read and how long its xsel has been running, the
    \* reads made so far, and what the capture returned
    selMethod, xsel, capPc, capSel, capWaited, capReads, capOut,
    \* the search command: its --empty flag, its position, the locals query
    \* and triggerMethod of its RunE, its result, and whether the manual
    \* query prompt was shown
    emptyFlag, srchPc, query, triggerMethod, srchRet, prompted,
    \* window placing: what xdpyinfo does, config.Behavior.WindowWidth, the
    \* position of the computation, what getScreenDimensions returned and
    \* the x position planned from it
    xdpy, windowWidth, geoPc, screenWidth, screenHeight, xPos,
    \* engine management: config.SearchEngines as saved in the configuration
    \* file, the file before the last command, the last command and how it
    \* ended, and the number of commands run
    savedEngines, enginesBefore, engineCmd, engineRuns

normVars == <<nIn, nRef, nOut>>
regVars  == <<research_windows, now, regOp>>
envVars  == <<win>>
progVars == <<pc, ret, beforeWIDs, elapsed, firefoxWID, detResult, activeWID>>
histVars == <<lastPoll, sawFail, existedAtLaunch, cmpLog, ownWin>>
auditVars == <<calls, storeErr, recon, toolErr>>
capVars  == <<selMethod, xsel, capPc, capSel, capWaited, capReads, capOut>>
srchVars == <<emptyFlag, srchPc, query, triggerMethod, srchRet, prompted>>
geoVars  == <<xdpy, windowWidth, geoPc, screenWidth, screenHeight, xPos>>
engVars  == <<savedEngines, enginesBefore, engineCmd, engineRuns>>
sideVars == <<srchVars, geoVars, engVars>>
mainVars == <<envVars, progVars, histVars, auditVars, capVars, sideVars>>
deskVars == <<envVars, progVars, histVars, auditVars>>
vars     == <<normVars, regVars, mainVars>>

\* no poll made yet
NoPoll == [status |-> "none", at |-> 0, new |-> {}]

\* no ID comparison made yet
NoCmp == [op |-> "none", raw |-> {}]

\* no capture has returned
NoCapture == [text |-> <<>>, err |-> "pending", source |-> "none"]

\* an xsel that prints nothing and exits 0
EmptySelection == [exit |-> "ok", out |-> <<>>]

\* the search command is not capturing
CaptureIdle ==
    /\ capPc = "idle"
    /\ capSel = "none"
    /\ capWaited = 0
    /\ capReads = <<>>
    /\ capOut = NoCapture

\* cleanupDeadWindows has not run in this command
NoRecon ==
    [ran |-> FALSE, before |-> {}, live |-> {}, working |-> FALSE,
     logged |-> 0, result |-> [err |-> FALSE]]

\* the desktop and the program before any command has run
InitMain ==
    /\ win = [i \in WinIdx |-> "unborn"]
    /\ pc = "idle"
    /\ ret = "none"
    /\ beforeWIDs = {}
    /\ elapsed = 0
    /\ firefoxWID = <<>>
    /\ detResult = "none"
    /\ activeWID = <<>>
    /\ lastPoll = NoPoll
    /\ sawFail = FALSE
    /\ existedAtLaunch = {}
    /\ ownWin = 0
    /\ cmpLog = NoCmp
    /\ calls = {}
    /\ storeErr = {}
    /\ recon = NoRecon
    /\ toolErr = {}

\* no search command is capturing; the configuration has the default method
InitCapIdle ==
    /\ selMethod = "auto"
    /\ xsel = [sel \in {"primary", "clipboard"} |-> EmptySelection]
    /\ CaptureIdle

\* no search command is running
SearchIdle ==
    /\ emptyFlag = FALSE
    /\ srchPc = "idle"
    /\ query = <<>>
    /\ triggerMethod = "none"
    /\ srchRet = "none"
    /\ prompted = FALSE

\* no xdpyinfo command has run
NoXdpy == [exit |-> "none", lines |-> <<>>]

\* no window is being placed
GeometryIdle ==
    /\ xdpy = NoXdpy
    /\ windowWidth = 0
    /\ geoPc = "idle"
    /\ screenWidth = 0
    /\ screenHeight = 0
    /\ xPos = 0

\* no engine command has run
NoEngineCmd ==
    [cmd |-> "none", ok |-> TRUE, err |-> "none", key |-> <<>>, newKey |-> <<>>]

\* the engine list is not being edited
EnginesIdle ==
    /\ savedEngines = <<>>
    /\ enginesBefore = <<>>
    /\ engineCmd = NoEngineCmd
    /\ engineRuns = 0

\* no search, window placing or engine command is under way
InitSideIdle == SearchIdle /\ GeometryIdle /\ EnginesIdle

(***************************************************************************)
(* The normalizer, called on enumerated arguments                          *)
(***************************************************************************)
NoNum == [hi |-> -1, lo |-> -1]

\* no registry call made yet
NoOp == [op |-> "none", wid |-> <<>>, ok |-> TRUE, err |-> FALSE,
         before |-> {}, at |-> 0]

\* 32-bit numbers hi * 2^16 + lo: every low half up to MaxLow under high
\* halves at the edges of the 16-, 31- and 32-bit ranges
HiHalves == {0, 1, 9, 32767, 32768, 65535}
LoHalves == (0..MaxLow) \cup {4095, 4096, 65535}
Nums == [hi : HiHalves, lo : LoHalves]

\* the magnitude of hi * 2^16 + lo
RECURSIVE Nibbles(_, _)
Nibbles(n, k) == IF k = 0 THEN <<>> ELSE <<n % 16>> \o Nibbles(n \div 16, k - 1)

NumMag(n) == Trim(Nibbles(n.lo, 4) \o Nibbles(n.hi, 4))

\* the alphabet of the exhaustively enumerated arguments
NormAlphabet == {"0", "1", "9", "x", "a", "-", "+", " "}

RECURSIVE StringsUpTo(_)
StringsUpTo(k) ==
    IF k = 0 THEN {<<>>}
    ELSE LET shorter == StringsUpTo(k - 1)
         IN  shorter \cup {Append(t, c) : t \in shorter, c \in NormAlphabet}

\* arguments at the edges of int's range, and text around a number
LongStrings ==
    { <<"9","2","2","3","3","7","2","0","3","6","8","5","4","7","7","5","8","0","7">>,
      <<"9","2","2","3","3","7","2","0","3","6","8","5","4","7","7","5","8","0","8">>,
      <<"-","9","2","2","3","3","7","2","0","3","6","8","5","4","7","7","5","8","0","8">>,
      <<"-","9","2","2","3","3","7","2","0","3","6","8","5","4","7","7","5","8","0","9">>,
      <<"9","9","9","9","9","9","9","9","9","9","9","9","9","9","9","9","9","9","9","9">>,
      <<"0","0","0","0","0","0","0","0","0","0","0","0","0","0","0","0","0","0","0","0","1","6">>,
      <<"-","4","2","9","4","9","6","7","2","9","5">>,
      <<"+","4","2","9","4","9","6","7","2","9","6">>,
      <<"0","x","F","F">>,
      <<"0","X","1","0">>,
      <<"1","_","0","0","0">>,
      <<"1","2","3","4","5","6","7","8","9","0","1","2">> }

InitNorm ==
    /\ \/ \E n \in Nums :
            /\ nRef = n
            /\ nIn \in {DecForm(NumMag(n)), HexForm(NumMag(n))}
       \/ /\ nRef = NoNum
          /\ nIn \in StringsUpTo(MaxStrLen) \cup LongStrings
    /\ nOut = <<>>
    /\ research_windows = {}
    /\ now = 0
    /\ regOp = NoOp
    /\ InitMain
    /\ InitCapIdle
    /\ InitSideIdle

\* normalizeWindowID on the argument
NormalizeFirst ==
    /\ nOut = <<>>
    /\ nOut' = <<normalizeWindowID(nIn)>>
    /\ UNCHANGED <<nIn, nRef, regVars, mainVars>>

\* normalizeWindowID on its own result
NormalizeAgain ==
    /\ Len(nOut) = 1
    /\ nOut' = Append(nOut, normalizeWindowID(nOut[1]))
    /\ UNCHANGED <<nIn, nRef, regVars, mainVars>>

NextNorm == NormalizeFirst \/ NormalizeAgain

SpecNorm == InitNorm /\ [][NextNorm]_vars

\* C1: for every n in 0..2^32-1, normalizeWindowID of n's base-10 string and
\* normalizeWindowID of "0x" followed by n's eight zero-padded lowercase hex
\* digits are the same string.  Both arguments of a number reach the same
\* result, which is the hex string itself.
C1_DecimalAndHexAgree ==
    (nRef # NoNum /\ Len(nOut) >= 1) =>
        /\ nOut[1] = HexForm(NumMag(nRef))
        /\ nOut[1] = normalizeWindowID(DecForm(NumMag(nRef)))
        /\ nOut[1] = normalizeWindowID(HexForm(NumMag(nRef)))

\* a number beyond 31 bits, given in base 10, has been normalized
C1_Witness ==
    /\ nRef = [hi |-> 65535, lo |-> 65535]
    /\ nIn = <<"4","2","9","4","9","6","7","2","9","5">>
    /\ Len(nOut) >= 1
    /\ nOut[1] = <<"0","x","f","f","f","f","f","f","f","f">>

\* C2: normalizeWindowID is idempotent on every argument: hex-prefixed,
\* decimal, signed decimal and unparseable text.
C2_Idempotent == (Len(nOut) = 2) => (nOut[2] = nOut[1])

\* a negative decimal was rewritten by the first call and kept by the second
C2_Witness ==
    /\ nIn = <<"-", "1", "9">>
    /\ Len(nOut) = 2
    /\ nOut[1] = <<"0","x","-","0","0","0","0","0","1","3">>
    /\ nOut[2] = nOut[1]

(***************************************************************************)
(* The registry, called directly with window IDs in either textual form    *)
(***************************************************************************)
RegInputs == UNION {RawForms(i) : i \in WinIdx}

\* two strings that name the same window
SameWindow(w1, w2) == \E i \in WinIdx : {w1, w2} \subseteq RawForms(i)

InitReg ==
    /\ research_windows = {}
    /\ now = 0
    /\ regOp = NoOp
    /\ nIn = <<>>
    /\ nRef = NoNum
    /\ nOut = <<>>
    /\ InitMain
    /\ InitCapIdle
    /\ InitSideIdle

\* addResearchWindow(wid); ok is whether the store executes the statement
RegAdd(wid, ok) ==
    /\ research_windows' =
          IF ok THEN addResearchWindow(research_windows, wid, now)
                ELSE research_windows
    /\ regOp' = [op |-> "add", wid |-> wid, ok |-> ok, err |-> ~ok,
                 before |-> research_windows, at |-> now]
    /\ UNCHANGED <<now, normVars, mainVars>>

\* removeResearchWindow(wid)
RegRemove(wid, ok) ==
    /\ research_windows' =
          IF ok THEN removeResearchWindow(research_windows, wid)
                ELSE research_windows
    /\ regOp' = [op |-> "remove", wid |-> wid, ok |-> ok, err |-> ~ok,
                 before |-> research_windows, at |-> now]
    /\ UNCHANGED <<now, normVars, mainVars>>

\* time passes between calls
RegTick ==
    /\ now < MaxTime
    /\ now' = now + 1
    /\ UNCHANGED <<research_windows, regOp, normVars, mainVars>>

NextReg ==
    \/ \E wid \in RegInputs, ok \in BOOLEAN : RegAdd(wid, ok)
    \/ \E wid \in RegInputs, ok \in BOOLEAN : RegRemove(wid, ok)
    \/ RegTick

SpecRegistry == InitReg /\ [][NextReg]_vars

\* C4: with a working store, right after upsert(id) the membership check
\* finds the ID and right after remove(id) it does not, whichever textual
\* form (decimal or hex) the call and the check are given.
C4_UpsertRemoveContains ==
    /\ (regOp.op = "add" /\ regOp.ok) =>
          \A w \in RegInputs :
              SameWindow(w, regOp.wid) => isTracked(research_windows, w)
    /\ (regOp.op = "remove" /\ regOp.ok) =>
          \A w \in RegInputs :
              SameWindow(w, regOp.wid) => ~isTracked(research_windows, w)

\* an ID upserted in base 10 is found when checked in hex
C4_Witness ==
    /\ regOp.op = "add" /\ regOp.ok
    /\ regOp.wid = DecForm(XidOf(1))
    /\ isTracked(research_windows, HexForm(XidOf(1)))
    /\ ~isTracked(regOp.before, HexForm(XidOf(1)))

\* C5: remove(id) of an ID the registry does not hold leaves the registry
\* as it was and returns no error (the statement itself executing); after
\* one remove(id), another remove(id) changes nothing more.
C5_RemoveAbsentIsNoOp ==
    /\ (regOp.op = "remove" /\ ~isTracked(regOp.before, regOp.wid)) =>
          /\ research_windows = regOp.before
          /\ regOp.ok => ~regOp.err
    /\ (regOp.op = "remove" /\ regOp.ok) =>
          \A w \in RegInputs :
              SameWindow(w, regOp.wid) =>
                  removeResearchWindow(research_windows, w) = research_windows

\* an untracked ID was removed from a registry that tracks another window
C5_Witness ==
    /\ regOp.op = "remove" /\ regOp.ok /\ ~regOp.err
    /\ ~isTracked(regOp.before, regOp.wid)
    /\ regOp.before # {}
    /\ research_windows = regOp.before

\* C6: the registry never holds two entries for one window ID; an upsert of
\* an ID already tracked, in either textual form, keeps the number of
\* entries and only sets that entry's created_at to the time of the call.
C6_OneEntryPerWindow ==
    /\ \A r1, r2 \in research_windows :
          r1.window_id = r2.window_id => r1 = r2
    /\ \A i \in WinIdx :
          Cardinality({r \in research_windows :
                          r.window_id \in {normalizeWindowID(w) : w \in RawForms(i)}}) <= 1
    /\ (regOp.op = "add" /\ regOp.ok /\ isTracked(regOp.before, regOp.wid)) =>
          /\ Cardinality(research_windows) = Cardinality(regOp.before)
          /\ storedWIDs(research_windows) = storedWIDs(regOp.before)
          /\ \A r \in research_windows :
                \/ r \in regOp.before
                \/ r = Row(normalizeWindowID(regOp.wid), regOp.at)

\* a window registered in hex is registered again, later, in base 10
C6_Witness ==
    /\ regOp.op = "add" /\ regOp.ok
    /\ regOp.wid = DecForm(XidOf(2))
    /\ Row(HexForm(XidOf(2)), 0) \in regOp.before
    /\ regOp.at > 0
    /\ Row(HexForm(XidOf(2)), regOp.at) \in research_windows
    /\ Cardinality(research_windows) = 2

(***************************************************************************)
(* The desktop: window listing and window lifecycle                        *)
(***************************************************************************)
\* the poll interval and the total timeout of waitForNewFirefoxWindow, ms
PollIntervalMs == 100
DetectTimeoutMs == 5000

Live(w) == {i \in WinIdx : w[i] \in {"firefox", "other"}}

\* one line of wmctrl -l: the window ID, and whether the title holds
\* "Mozilla Firefox"
Line(w, i) == [id |-> HexOf[i], firefox |-> (w[i] = "firefox")]

RECURSIVE Ascending(_)
Ascending(S) ==
    IF S = {} THEN <<>>
    ELSE LET m == CHOOSE x \in S : \A y \in S : x <= y
         IN  <<m>> \o Ascending(S \ {m})

\* the outputs wmctrl -l can give: every live window once, any of them first
Listings(w) ==
    IF Live(w) = {} THEN {<<>>}
    ELSE { LET order == <<f>> \o Ascending(Live(w) \ {f})
           IN  [k \in 1..Len(order) |-> Line(w, order[k])] : f \in Live(w) }

\* a window appears: a Firefox window of the user's, or another
\* application's.  Window slots are taken in order (the X server hands out
\* fresh IDs, and which slot a window gets changes nothing the program
\* reads but the ID); one slot is enough to hold another application's
\* window
EnvOpen(i, kind) ==
    /\ win[i] = "unborn"
    /\ \A j \in 1..(i - 1) : win[j] # "unborn"
    /\ kind = "other" => i = 1
    /\ win' = [win EXCEPT ![i] = kind]
    /\ UNCHANGED <<progVars, histVars, auditVars, regVars, normVars, capVars, sideVars>>

\* the Firefox the running command has started maps its window while the
\* detector is polling; it takes the lowest window slot not yet used
LaunchedWindowAppears(i) ==
    /\ pc = "open_detect"
    /\ ownWin = 0
    /\ win[i] = "unborn"
    /\ \A j \in 1..(i - 1) : win[j] # "unborn"
    /\ win' = [win EXCEPT ![i] = "firefox"]
    /\ ownWin' = i
    /\ UNCHANGED <<progVars, lastPoll, sawFail, existedAtLaunch, cmpLog,
                   auditVars, regVars, normVars, capVars, sideVars>>

\* a window goes away: the user closes it, or its application dies
EnvClose(i) ==
    /\ i \in Live(win)
    /\ win' = [win EXCEPT ![i] = "dead"]
    /\ UNCHANGED <<progVars, histVars, auditVars, regVars, normVars, capVars, sideVars>>

(***************************************************************************)
(* open-and-track: openBrowserInSideWindow and waitForNewFirefoxWindow     *)
(***************************************************************************)
\* the normalized IDs of the listing's Firefox lines
firefoxWIDs(lines) ==
    {normalizeWindowID(lines[k].id) : k \in {j \in 1..Len(lines) : lines[j].firefox}}

\* a scan that takes the first Firefox line whatever the snapshot holds
RECURSIVE scanForNew_AnyFirefox(_, _)
scanForNew_AnyFirefox(lines, before) ==
    IF lines = <<>> THEN <<>>
    ELSE IF Head(lines).firefox THEN normalizeWindowID(Head(lines).id)
    ELSE scanForNew_AnyFirefox(Tail(lines), before)

\* the detector's scan of one listing: the first Firefox line whose
\* normalized ID is not in the snapshot, or "" when there is none
RECURSIVE scanForNew(_, _)
scanForNew(lines, before) ==
    IF lines = <<>> THEN <<>>
    ELSE LET wid == normalizeWindowID(Head(lines).id)
         IN  IF Head(lines).firefox /\ wid \notin before THEN wid
             ELSE scanForNew(Tail(lines), before)

\* a loop test that gives up one poll interval early
timeLeft_Early(e) == e < DetectTimeoutMs - PollIntervalMs

\* time.Now().Before(timeout)
timeLeft(e) == e < DetectTimeoutMs

\* a failure path that forgets to sleep
sleepAfterFailure_None(e) == e

\* time.Sleep(100 * time.Millisecond) on the failure path
sleepAfterFailure(e) == e + PollIntervalMs

\* the search command reaches openBrowserInSideWindow: it lists the
\* windows, keeps the normalized IDs of the Firefox ones (none when the
\* listing fails), starts firefox --new-window, and the detector takes its
\* deadline.  The desktop is taken not to change between the listing and
\* cmd.Start(), which follow each other without a wait.
OpenLaunch ==
    /\ pc = "idle"
    /\ \E listOk, startOk \in BOOLEAN, lines \in Listings(win) :
          /\ beforeWIDs' = IF listOk THEN firefoxWIDs(lines) ELSE {}
          /\ IF startOk
             THEN /\ pc' = "open_detect"
                  /\ ret' = "none"
                  /\ existedAtLaunch' =
                        {HexOf[i] : i \in {j \in WinIdx : win[j] = "firefox"}}
             ELSE /\ pc' = "idle"
                  /\ ret' = "err"
                  /\ existedAtLaunch' = {}
    /\ elapsed' = 0
    /\ firefoxWID' = <<>>
    /\ detResult' = "none"
    /\ activeWID' = <<>>
    /\ lastPoll' = NoPoll
    /\ sawFail' = FALSE
    /\ cmpLog' = NoCmp
    /\ ownWin' = 0
    /\ calls' = {"wmctrl -l", "firefox"}
    /\ storeErr' = {}
    /\ recon' = NoRecon
    /\ toolErr' = {}
    /\ UNCHANGED <<win, regVars, normVars, capVars, sideVars>>

\* one turn of the detector's loop while time is left: list the windows,
\* return the first new Firefox window, else sleep one interval
DetectPoll ==
    /\ pc = "open_detect"
    /\ timeLeft(elapsed)
    /\ \E ok \in BOOLEAN, lines \in Listings(win) :
          IF ~ok
          THEN /\ elapsed' = sleepAfterFailure(elapsed)
               /\ lastPoll' = [status |-> "fail", at |-> elapsed, new |-> {}]
               /\ sawFail' = TRUE
               /\ UNCHANGED <<pc, firefoxWID, detResult, cmpLog>>
          ELSE LET wid == scanForNew(lines, beforeWIDs)
               IN  /\ lastPoll' = [status |-> "ok", at |-> elapsed,
                                   new |-> firefoxWIDs(lines) \ beforeWIDs]
                   /\ cmpLog' = [op |-> "before-test", raw |-> {}]
                   /\ UNCHANGED sawFail
                   /\ IF wid # <<>>
                      THEN /\ firefoxWID' = wid
                           /\ detResult' = "found"
                           /\ pc' = "open_position"
                           /\ UNCHANGED elapsed
                      ELSE /\ elapsed' = elapsed + PollIntervalMs
                           /\ UNCHANGED <<pc, firefoxWID, detResult>>
    /\ calls' = calls \cup {"wmctrl -l"}
    /\ UNCHANGED <<envVars, ret, beforeWIDs, activeWID, existedAtLaunch, ownWin,
                   storeErr, recon, toolErr, regVars, normVars, capVars, sideVars>>

\* a caller that drops the detector's error and goes on with the empty ID
DetectTimeout_Tracks ==
    /\ pc = "open_detect"
    /\ ~timeLeft(elapsed)
    /\ detResult' = "timeout"
    /\ pc' = "open_position"
    /\ UNCHANGED <<envVars, ret, beforeWIDs, elapsed, firefoxWID, activeWID,
                   histVars, auditVars, regVars, normVars, capVars, sideVars>>

\* the loop ends with no time left: the detector's timeout error, which
\* openBrowserInSideWindow and handleSearch return to the command
DetectTimeout ==
    /\ pc = "open_detect"
    /\ ~timeLeft(elapsed)
    /\ detResult' = "timeout"
    /\ ret' = "err"
    /\ pc' = "idle"
    /\ UNCHANGED <<envVars, beforeWIDs, elapsed, firefoxWID, activeWID,
                   histVars, auditVars, regVars, normVars, capVars, sideVars>>

\* the window-placing calls that failed, as the log names them
placingErrors(unmaxOk, geomOk) ==
    (IF unmaxOk THEN {} ELSE {"unmaximize"})
        \cup (IF geomOk THEN {} ELSE {"geometry"})

\* a placing step that gives up the command when one of its calls fails
OpenPosition_AbortsOnFailure ==
    /\ pc = "open_position"
    /\ \E unmaxOk, geomOk \in BOOLEAN :
          /\ toolErr' = placingErrors(unmaxOk, geomOk)
          /\ IF unmaxOk /\ geomOk
             THEN pc' = "open_track" /\ UNCHANGED ret
             ELSE pc' = "idle" /\ ret' = "err"
    /\ beforeWIDs' = {}
    /\ elapsed' = 0
    /\ lastPoll' = NoPoll
    /\ sawFail' = FALSE
    /\ ownWin' = 0
    /\ calls' = calls \cup {"xdpyinfo", "wmctrl -r"}
    /\ UNCHANGED <<envVars, firefoxWID, detResult, activeWID,
                   existedAtLaunch, cmpLog, storeErr, recon, regVars,
                   normVars, capVars, sideVars>>

\* the detector has returned and its locals are gone; query the screen,
\* un-maximize, sleep, set the geometry of the detected window; a failure
\* of either wmctrl call is only logged
OpenPosition ==
    /\ pc = "open_position"
    /\ \E unmaxOk, geomOk \in BOOLEAN :
          toolErr' = placingErrors(unmaxOk, geomOk)
    /\ pc' = "open_track"
    /\ beforeWIDs' = {}
    /\ elapsed' = 0
    /\ lastPoll' = NoPoll
    /\ sawFail' = FALSE
    /\ ownWin' = 0
    /\ calls' = calls \cup {"xdpyinfo", "wmctrl -r"}
    /\ UNCHANGED <<envVars, ret, firefoxWID, detResult, activeWID,
                   existedAtLaunch, cmpLog, storeErr, recon, regVars,
                   normVars, capVars, sideVars>>

\* addResearchWindow(firefoxWID); a failure is only logged
OpenTrack ==
    /\ pc = "open_track"
    /\ \E ok \in BOOLEAN :
          /\ research_windows' =
                IF ok THEN addResearchWindow(research_windows, firefoxWID, now)
                      ELSE research_windows
          /\ storeErr' = IF ok THEN storeErr ELSE storeErr \cup {"insert"}
    /\ cmpLog' = [op |-> "upsert", raw |-> {}]
    /\ ret' = "ok"
    /\ pc' = "idle"
    /\ UNCHANGED <<envVars, beforeWIDs, elapsed, firefoxWID, detResult,
                   activeWID, lastPoll, sawFail, existedAtLaunch, ownWin,
                   calls, recon, toolErr, now, regOp, normVars, capVars, sideVars>>

(***************************************************************************)
(* close-if-tracked: closeActiveResearchWindow and cleanupDeadWindows      *)
(***************************************************************************)
\* a removal loop that stops after its first delete
removeEach_First(table, wids) ==
    IF wids = {} THEN table
    ELSE removeResearchWindow(table, CHOOSE x \in wids : TRUE)

\* removeResearchWindow on each of a set of IDs
RECURSIVE removeEach(_, _)
removeEach(table, wids) ==
    IF wids = {} THEN table
    ELSE LET wid == CHOOSE x \in wids : TRUE
         IN  removeEach(removeResearchWindow(table, wid), wids \ {wid})

\* the first token of every line of the listing, as printed
currentWIDs(lines) == {lines[k].id : k \in 1..Len(lines)}

\* a test that lost its negation: the stored IDs the listing does show
deadWIDs_Live(table, lines) ==
    {wid \in storedWIDs(table) : wid \in currentWIDs(lines)}

\* the stored IDs cleanupDeadWindows finds no live window for
deadWIDs(table, lines) ==
    {wid \in storedWIDs(table) : wid \notin currentWIDs(lines)}

\* a cleanup that also closes the Firefox windows the registry does not hold
desktopAfterCleanup_CloseUntracked(w, table) ==
    [i \in WinIdx |->
        IF w[i] = "firefox" /\ HexOf[i] \notin storedWIDs(table)
        THEN "dead" ELSE w[i]]

\* the windows after cleanupDeadWindows: it runs wmctrl -l and nothing else
desktopAfterCleanup(w, table) == w

\* a cleanup that takes a failed listing for an empty one
cleanupOnListFailure_PruneAll(table) == {}

\* cleanupDeadWindows returns its error before the removal loop when the
\* listing fails
cleanupOnListFailure(table) == table

\* the external tools cleanupDeadWindows runs
cleanupCalls == {"wmctrl -l"}

\* what cleanupDeadWindows returns: an error value and nothing else
cleanupResult(failure) == [err |-> failure]

\* the window an ID printed in base 10 names, 0 when there is none
WindowOf(wid) ==
    IF \E i \in WinIdx : DecOf[i] = wid
    THEN CHOOSE i \in WinIdx : DecOf[i] = wid
    ELSE 0

\* the close command asks xdotool for the active window
CloseGetActive ==
    /\ pc = "idle"
    /\ \E a \in Live(win) \cup {0} :
          IF a = 0
          THEN /\ ret' = "err"
               /\ activeWID' = <<>>
               /\ UNCHANGED pc
          ELSE /\ ret' = "none"
               /\ activeWID' = DecOf[a]
               /\ pc' = "close_cleanup"
    /\ beforeWIDs' = {}
    /\ elapsed' = 0
    /\ firefoxWID' = <<>>
    /\ detResult' = "none"
    /\ lastPoll' = NoPoll
    /\ sawFail' = FALSE
    /\ existedAtLaunch' = {}
    /\ cmpLog' = NoCmp
    /\ ownWin' = 0
    /\ calls' = {"xdotool getactivewindow"}
    /\ storeErr' = {}
    /\ recon' = NoRecon
    /\ toolErr' = {}
    /\ UNCHANGED <<win, regVars, normVars, capVars, sideVars>>

\* cleanupDeadWindows: read the stored IDs, list the windows, delete every
\* stored ID the listing does not show, one log line for each deleted and a
\* warning for each delete that failed; the caller only logs its error
CloseCleanup ==
    /\ pc = "close_cleanup"
    /\ \E dbOk, listOk \in BOOLEAN, lines \in Listings(win) :
          LET dead == deadWIDs(research_windows, lines)
              seen == [ran |-> TRUE,
                       before |-> storedWIDs(research_windows),
                       live |-> {HexOf[i] : i \in Live(win)},
                       working |-> FALSE, logged |-> 0,
                       result |-> cleanupResult(TRUE)]
          IN  IF ~dbOk
              THEN /\ storeErr' = storeErr \cup {"select"}
                   /\ recon' = seen
                   /\ UNCHANGED <<research_windows, cmpLog, calls, win>>
              ELSE IF ~listOk
              THEN /\ calls' = calls \cup cleanupCalls
                   /\ research_windows' = cleanupOnListFailure(research_windows)
                   /\ recon' = seen
                   /\ UNCHANGED <<cmpLog, storeErr, win>>
              ELSE \E failed \in SUBSET dead :
                      /\ research_windows' =
                            removeEach(research_windows, dead \ failed)
                      /\ win' = desktopAfterCleanup(win, research_windows)
                      /\ calls' = calls \cup cleanupCalls
                      /\ storeErr' = IF failed = {} THEN storeErr
                                     ELSE storeErr \cup {"delete-dead"}
                      /\ recon' = [seen EXCEPT
                                      !.working = (failed = {}),
                                      !.logged = Cardinality(dead \ failed),
                                      !.result = cleanupResult(FALSE)]
                      /\ cmpLog' =
                            [op |-> "reconcile",
                             raw |-> IF research_windows = {} \/ lines = <<>>
                                     THEN {} ELSE {"wmctrl"}]
    /\ pc' = "close_check"
    /\ UNCHANGED <<ret, beforeWIDs, elapsed, firefoxWID, detResult,
                   activeWID, lastPoll, sawFail, existedAtLaunch, ownWin,
                   toolErr, now, regOp, normVars, capVars, sideVars>>

\* the membership query on the normalized active window ID: its failure is
\* the command's error; a window that is not tracked ends the command
\* without one
CloseCheck ==
    /\ pc = "close_check"
    /\ \E ok \in BOOLEAN :
          IF ~ok
          THEN /\ ret' = "err"
               /\ pc' = "idle"
               /\ storeErr' = storeErr \cup {"count"}
               /\ UNCHANGED cmpLog
          ELSE /\ cmpLog' = [op |-> "contains", raw |-> {}]
               /\ UNCHANGED storeErr
               /\ IF isTracked(research_windows, activeWID)
                  THEN /\ pc' = "close_window"
                       /\ UNCHANGED ret
                  ELSE /\ pc' = "idle"
                       /\ ret' = "ok"
    /\ recon' = NoRecon
    /\ UNCHANGED <<envVars, beforeWIDs, elapsed, firefoxWID, detResult,
                   activeWID, lastPoll, sawFail, existedAtLaunch, ownWin,
                   calls, toolErr, regVars, normVars, capVars, sideVars>>

\* a close step that deletes the entry before it knows the close succeeded
CloseWindow_RemovesFirst ==
    /\ pc = "close_window"
    /\ research_windows' = removeResearchWindow(research_windows, activeWID)
    /\ \E ok \in BOOLEAN :
          IF ok
          THEN /\ win' = [i \in WinIdx |->
                            IF i = WindowOf(activeWID) /\ i \in Live(win)
                            THEN "dead" ELSE win[i]]
               /\ pc' = "close_remove"
               /\ UNCHANGED ret
          ELSE /\ ret' = "err"
               /\ pc' = "idle"
               /\ UNCHANGED win
    /\ calls' = calls \cup {"xdotool getwindowname", "xdotool windowclose"}
    /\ UNCHANGED <<beforeWIDs, elapsed, firefoxWID, detResult,
                   activeWID, histVars, storeErr, recon, toolErr, now, regOp,
                   normVars, capVars, sideVars>>

\* xdotool getwindowname, then xdotool windowclose on the active window
CloseWindow ==
    /\ pc = "close_window"
    /\ \E ok \in BOOLEAN :
          IF ok
          THEN /\ win' = [i \in WinIdx |->
                            IF i = WindowOf(activeWID) /\ i \in Live(win)
                            THEN "dead" ELSE win[i]]
               /\ pc' = "close_remove"
               /\ UNCHANGED ret
          ELSE /\ ret' = "err"
               /\ pc' = "idle"
               /\ UNCHANGED win
    /\ calls' = calls \cup {"xdotool getwindowname", "xdotool windowclose"}
    /\ UNCHANGED <<beforeWIDs, elapsed, firefoxWID, detResult,
                   activeWID, histVars, storeErr, recon, toolErr, regVars,
                   normVars, capVars, sideVars>>

\* removeResearchWindow(activeWID); a failure is only logged
CloseRemove ==
    /\ pc = "close_remove"
    /\ \E ok \in BOOLEAN :
          /\ research_windows' =
                IF ok THEN removeResearchWindow(research_windows, activeWID)
                      ELSE research_windows
          /\ storeErr' = IF ok THEN storeErr ELSE storeErr \cup {"delete"}
    /\ cmpLog' = [op |-> "remove", raw |-> {}]
    /\ ret' = "ok"
    /\ pc' = "idle"
    /\ UNCHANGED <<envVars, beforeWIDs, elapsed, firefoxWID, detResult,
                   activeWID, lastPoll, sawFail, existedAtLaunch, ownWin,
                   calls, recon, toolErr, now, regOp, normVars, capVars, sideVars>>

(***************************************************************************)
(* The commands on a changing desktop                                      *)
(***************************************************************************)
Init ==
    /\ InitMain
    /\ InitCapIdle
    /\ InitSideIdle
    /\ research_windows = {}
    /\ now = 0
    /\ regOp = NoOp
    /\ nIn = <<>>
    /\ nRef = NoNum
    /\ nOut = <<>>

Next ==
    \/ \E i \in WinIdx, kind \in {"firefox", "other"} : EnvOpen(i, kind)
    \/ \E i \in WinIdx : LaunchedWindowAppears(i)
    \/ \E i \in WinIdx : EnvClose(i)
    \/ OpenLaunch
    \/ DetectPoll
    \/ DetectTimeout
    \/ OpenPosition
    \/ OpenTrack
    \/ CloseGetActive
    \/ CloseCleanup
    \/ CloseCheck
    \/ CloseWindow
    \/ CloseRemove

Spec == Init /\ [][Next]_vars

\* the detector's loop is a running process: it takes its next turn
FairSpec == Spec /\ WF_vars(DetectPoll) /\ WF_vars(DetectTimeout)

(***************************************************************************)
(* Claims about the commands                                               *)
(***************************************************************************)
\* C3: in every operation that compares or stores window IDs (the
\* detector's test against the before-snapshot, registry upsert, remove and
\* membership, the reconciler's test of stored IDs against the live
\* windows) every operand has been passed through normalizeWindowID; no ID
\* is compared as the listing tool or the active-window query printed it.
C3_OperandsNormalized ==
    /\ cmpLog.raw = {}
    /\ \A r \in research_windows : normalizeWindowID(r.window_id) = r.window_id
    /\ \A w \in beforeWIDs : normalizeWindowID(w) = w

\* C7: the detector returns at the first poll, made while time is left,
\* whose listing shows a Firefox window ID outside the before-snapshot, and
\* what it returns is such an ID of that very poll; a poll that shows none
\* leaves it waiting.
C7_ReturnsFirstNewWindow ==
    /\ lastPoll.new \cap beforeWIDs = {}
    /\ pc = "open_detect" => (lastPoll.new = {} /\ detResult = "none")
    /\ lastPoll.new # {} =>
          /\ pc = "open_position"
          /\ detResult = "found"
    /\ pc = "open_position" =>
          /\ detResult = "found"
          /\ lastPoll.status = "ok"
          /\ firefoxWID \in lastPoll.new
          /\ firefoxWID \notin beforeWIDs
          /\ lastPoll.at < DetectTimeoutMs
          /\ elapsed = lastPoll.at

\* before {A, B}; polls {A, B}, {A, B}, {A, B, C}: C is returned at the
\* third poll, two poll intervals after the start
C7_Witness ==
    /\ pc = "open_position"
    /\ detResult = "found"
    /\ Cardinality(beforeWIDs) = 2
    /\ lastPoll.new = {firefoxWID}
    /\ ~sawFail
    /\ elapsed = 2 * PollIntervalMs

\* C8: the detector always ends; when no poll shows a new window ID it ends
\* with the timeout error, and the timeout error is returned only once the
\* 5 seconds have passed.
C8_TimeoutOnlyAtDeadline ==
    /\ [](detResult = "timeout" => (elapsed >= DetectTimeoutMs /\ lastPoll.new = {}))
    /\ [](detResult = "found" /\ pc = "open_position" => lastPoll.new # {})
    /\ (pc = "open_detect") ~> (detResult \in {"found", "timeout"})

\* fifty polls showed nothing new and the timeout came at 5000 ms
C8_Witness ==
    /\ detResult = "timeout"
    /\ ret = "err"
    /\ elapsed = DetectTimeoutMs
    /\ lastPoll.at = DetectTimeoutMs - PollIntervalMs
    /\ lastPoll.status = "ok"

\* C9: the window open-and-track detects, positions and registers is never
\* a Firefox window that was already open when Firefox was launched,
\* whether or not the listing before the launch succeeded.
C9_DetectedWindowIsNew ==
    detResult = "found" => firefoxWID \notin existedAtLaunch

\* C10: a failed listing during a poll does not end the wait: the detector
\* sleeps one interval and stays in its loop; a later poll with time left
\* that shows a new window returns it; a detector whose last poll failed
\* ends only with the timeout, at the deadline.
C10_ListingFailureRetried ==
    /\ lastPoll.status = "fail" =>
          /\ elapsed >= lastPoll.at + PollIntervalMs
          /\ \/ pc = "open_detect" /\ detResult = "none"
             \/ pc = "idle" /\ detResult = "timeout" /\ elapsed >= DetectTimeoutMs
    /\ (pc = "open_position" /\ sawFail) =>
          /\ detResult = "found"
          /\ lastPoll.status = "ok"
          /\ firefoxWID \in lastPoll.new

\* a listing failed, and a later poll returned the new window
C10_Witness ==
    /\ pc = "open_position"
    /\ sawFail
    /\ detResult = "found"
    /\ firefoxWID \in lastPoll.new
    /\ elapsed >= PollIntervalMs

\* C11: cleanupDeadWindows, with a working store and listing tool, removes
\* exactly the tracked IDs that have no live window, keeps every tracked ID
\* that has one, and reports the number of entries it removed.
C11_ReconcileReportsCount ==
    (recon.ran /\ recon.working) =>
        /\ storedWIDs(research_windows) = recon.before \cap recon.live
        /\ "removedCount" \in DOMAIN recon.result
        /\ recon.result.removedCount = Cardinality(recon.before \ recon.live)

\* C11 as amended: it removes exactly those IDs and keeps the others, and
\* what it returns is a nil error and no count; the removals show only as
\* one log line each.
C11_ReconcileRemovesDead ==
    (recon.ran /\ recon.working) =>
        /\ storedWIDs(research_windows) = recon.before \cap recon.live
        /\ recon.logged = Cardinality(recon.before \ recon.live)
        /\ recon.result = [err |-> FALSE]

\* three tracked windows of which one is live: two removed, one kept
C11_Witness ==
    /\ recon.ran
    /\ recon.working
    /\ Cardinality(recon.before) = 3
    /\ Cardinality(recon.before \cap recon.live) = 1
    /\ Cardinality(storedWIDs(research_windows)) = 1
    /\ recon.logged = 2

\* C12: cleanupDeadWindows changes only the registry: it closes, moves and
\* resizes no window, and the live windows are the same after it as before.
C12_ReconcileLeavesDesktop ==
    [][(pc = "close_cleanup" /\ pc' = "close_check") =>
          /\ win' = win
          /\ calls' \ calls \subseteq {"wmctrl -l"}]_vars

\* a reconcile has pruned two entries while other windows are live
C12_Witness ==
    /\ pc = "close_check"
    /\ recon.ran
    /\ recon.logged = 2
    /\ recon.live # {}
    /\ {HexOf[i] : i \in Live(win)} = recon.live
    /\ "wmctrl -l" \in calls

(***************************************************************************)
(* Selection capture: captureSelectionSafely, captureFromSelection,        *)
(* readXSelection                                                          *)
(***************************************************************************)
\* the default of config.Behavior.SelectionTimeoutMs
SelectionTimeoutMs == 1000

\* the longest selection text enumerated, and the number of steps of half
\* a selection timeout an xsel is watched for
MaxSelLen == 2
MaxWaitSteps == 3

WaitStepMs == SelectionTimeoutMs \div 2

\* the characters strings.TrimSpace strips, among those enumerated
White == {" ", "\n", "\t"}

SelAlphabet == {" ", "\n", "f", "o"}

SelTexts ==
    UNION {[1..n -> SelAlphabet] : n \in 0..MaxSelLen}
        \cup {<<" ", "f", "o", "o", "\n">>, <<"f", " ", "o">>, <<"\t", "\n", " ">>}

\* what an xsel invocation can do: print a text and exit 0, exit with an
\* error, or never exit
SelOutcomes ==
    {[exit |-> "ok", out |-> t] : t \in SelTexts}
        \cup {[exit |-> "fail", out |-> <<>>], [exit |-> "hang", out |-> <<>>]}

\* the values of selection_method in config.json
ConfigMethods == {"", "auto", "manual", "primary", "clipboard", "xclip"}

\* loadConfig: an absent selection_method becomes "auto"
loadSelectionMethod(raw) == IF raw = "" THEN "auto" ELSE raw

RECURSIVE TrimLeft(_)
TrimLeft(s) ==
    IF s # <<>> /\ Head(s) \in White THEN TrimLeft(Tail(s)) ELSE s

RECURSIVE TrimRight(_)
TrimRight(s) ==
    IF s # <<>> /\ s[Len(s)] \in White
    THEN TrimRight(SubSeq(s, 1, Len(s) - 1)) ELSE s

\* a trim that strips nothing
TrimSpace_None(s) == s

\* strings.TrimSpace
TrimSpace(s) == TrimRight(TrimLeft(s))

\* the selections the manual method would read if it fell through to the
\* default case
readsFor_ManualFallsThrough(method) ==
    CASE method = "primary" -> <<"primary">>
      [] method = "clipboard" -> <<"clipboard">>
      [] OTHER -> <<"primary", "clipboard">>

\* auto with its two reads exchanged
readsFor_ClipboardFirst(method) ==
    CASE method = "manual" -> <<>>
      [] method = "primary" -> <<"primary">>
      [] method = "clipboard" -> <<"clipboard">>
      [] OTHER -> <<"clipboard", "primary">>

\* the switch of captureSelectionSafely: the selections a method reads, in
\* order; "auto" and every unknown method take the default case
readsFor(method) ==
    CASE method = "manual" -> <<>>
      [] method = "primary" -> <<"primary">>
      [] method = "clipboard" -> <<"clipboard">>
      [] OTHER -> <<"primary", "clipboard">>

\* captureFromSelection on a finished xsel: the trimmed text, or an error
\* when xsel failed or printed only whitespace; source is the selection the
\* log line names
captureFromSelection(sel, x) ==
    IF x.exit # "ok"
    THEN [text |-> <<>>, err |-> "xsel failed", source |-> "none"]
    ELSE LET trimmed == TrimSpace(x.out)
         IN  IF trimmed = <<>>
             THEN [text |-> <<>>, err |-> "selection is empty", source |-> "none"]
             ELSE [text |-> trimmed, err |-> "none", source |-> sel]

InitCapture ==
    /\ selMethod \in {loadSelectionMethod(m) : m \in ConfigMethods}
    /\ xsel \in [{"primary", "clipboard"} -> SelOutcomes]
    /\ CaptureIdle
    /\ InitMain
    /\ InitSideIdle
    /\ research_windows = {}
    /\ now = 0
    /\ regOp = NoOp
    /\ nIn = <<>>
    /\ nRef = NoNum
    /\ nOut = <<>>

\* captureSelectionSafely is entered: manual returns its error at once,
\* every other method starts xsel on its first selection
CaptureStart ==
    /\ capPc = "idle"
    /\ capOut = NoCapture
    /\ LET plan == readsFor(selMethod)
       IN  IF plan = <<>>
           THEN /\ capPc' = "done"
                /\ capOut' = [text |-> <<>>, err |-> "manual", source |-> "none"]
                /\ UNCHANGED capSel
           ELSE /\ capPc' = "reading"
                /\ capSel' = plan[1]
                /\ UNCHANGED capOut
    /\ UNCHANGED <<selMethod, xsel, capWaited, capReads,
                   normVars, regVars, deskVars, sideVars>>

\* cmd.Output() is still waiting for xsel
XselWait ==
    /\ capPc = "reading"
    /\ capWaited < MaxWaitSteps * WaitStepMs
    /\ capWaited' = capWaited + WaitStepMs
    /\ UNCHANGED <<selMethod, xsel, capPc, capSel, capReads, capOut,
                   normVars, regVars, deskVars, sideVars>>

\* xsel exits and captureFromSelection returns: a text ends the capture; an
\* error goes on to the method's next selection, or ends the capture with
\* that error (one selection) or with the no-text error (two)
XselReturn ==
    /\ capPc = "reading"
    /\ xsel[capSel].exit # "hang"
    /\ LET r == captureFromSelection(capSel, xsel[capSel])
           plan == readsFor(selMethod)
           k == Len(capReads) + 1
       IN  /\ capReads' = Append(capReads, [sel |-> capSel, err |-> r.err,
                                            out |-> xsel[capSel].out])
           /\ IF r.err = "none"
              THEN /\ capOut' = r
                   /\ capPc' = "done"
                   /\ UNCHANGED capSel
              ELSE IF k < Len(plan)
              THEN /\ capSel' = plan[k + 1]
                   /\ UNCHANGED <<capPc, capOut>>
              ELSE /\ capOut' = IF Len(plan) > 1
                                THEN [text |-> <<>>, err |-> "no text",
                                      source |-> "none"]
                                ELSE r
                   /\ capPc' = "done"
                   /\ UNCHANGED capSel
    /\ capWaited' = 0
    /\ UNCHANGED <<selMethod, xsel, normVars, regVars, deskVars, sideVars>>

NextCapture == CaptureStart \/ XselWait \/ XselReturn

SpecCapture == InitCapture /\ [][NextCapture]_vars

(***************************************************************************)
(* Claims about selection capture                                          *)
(***************************************************************************)
\* a selection whose xsel exits 0 with some character that is not
\* whitespace
HasText(x) == x.exit = "ok" /\ \E k \in 1..Len(x.out) : x.out[k] \notin White

\* t is s without its leading and trailing whitespace, and is not empty
IsTrimOf(t, s) ==
    /\ t # <<>>
    /\ t[1] \notin White
    /\ t[Len(t)] \notin White
    /\ \E i, j \in 1..Len(s) :
          /\ t = SubSeq(s, i, j)
          /\ \A k \in 1..Len(s) : (k < i \/ k > j) => s[k] \in White

AutoMethod == selMethod \notin {"manual", "primary", "clipboard"}

C14_ManualNeverReads ==
    selMethod = "manual" =>
        /\ capReads = <<>>
        /\ capPc # "reading"
        /\ capSel = "none"
        /\ capPc = "done" =>
              capOut = [text |-> <<>>, err |-> "manual", source |-> "none"]

\* both selections hold a text, and the manual method has returned its error
C14_Witness ==
    /\ selMethod = "manual"
    /\ capPc = "done"
    /\ HasText(xsel["primary"])
    /\ HasText(xsel["clipboard"])
    /\ capOut.err = "manual"

\* C15: a selection read that prints nothing or only whitespace is a
\* failure (selection empty), never a success; every text a capture
\* returns, under any method, is non-empty and neither starts nor ends with
\* whitespace.
C15_EmptyReadFails ==
    /\ \A k \in 1..Len(capReads) :
          ~HasText(xsel[capReads[k].sel]) =>
              /\ capReads[k].err # "none"
              /\ xsel[capReads[k].sel].exit = "ok" =>
                    capReads[k].err = "selection is empty"
    /\ capOut.err = "none" =>
          /\ capOut.text # <<>>
          /\ Head(capOut.text) \notin White
          /\ capOut.text[Len(capOut.text)] \notin White
          /\ capOut.source \in {"primary", "clipboard"}
          /\ HasText(xsel[capOut.source])
    /\ capOut.err \notin {"none", "pending"} => capOut.text = <<>>

\* PRIMARY holds a space and a newline: the read is a failure
C15_Witness ==
    /\ selMethod = "primary"
    /\ capPc = "done"
    /\ xsel["primary"] = [exit |-> "ok", out |-> <<" ", "\n">>]
    /\ Len(capReads) = 1
    /\ capOut.err = "selection is empty"

\* C16: every selection read is bounded by the selection timeout: a read
\* still running when the timeout expires is ended as a failed read, so no
\* xsel is waited for beyond it and the capture always returns.
C16_ReadBoundedByTimeout ==
    capPc = "reading" => capWaited <= SelectionTimeoutMs

(***************************************************************************)
(* Claims about the outcome of the commands                                *)
(***************************************************************************)
\* the active window of the close command has an entry in the registry
ActiveIsStored == HexOf[WindowOf(activeWID)] \in storedWIDs(research_windows)

\* C17: when the active window is not in the registry after the cleanup,
\* the close command returns without error and has run no window close;
\* the close is reached only for a tracked window.
C17_UntrackedCloseIsNoOp ==
    /\ (pc = "idle" /\ cmpLog.op = "contains" /\ ~ActiveIsStored) =>
          /\ ret = "ok"
          /\ "xdotool windowclose" \notin calls
    /\ pc = "close_window" =>
          /\ ActiveIsStored
          /\ "xdotool windowclose" \notin calls

\* the close command has returned on an untracked Firefox window, which is
\* still open, while another window is tracked
C17_Witness ==
    /\ pc = "idle"
    /\ cmpLog.op = "contains"
    /\ ~ActiveIsStored
    /\ research_windows # {}
    /\ win[WindowOf(activeWID)] = "firefox"
    /\ ret = "ok"
    /\ calls = {"xdotool getactivewindow", "wmctrl -l"}

\* C18: when the detector times out after the launch, the open operation
\* still completes without error; only the registration is missing.
C18_TimeoutStillSucceeds ==
    (pc = "idle" /\ detResult = "timeout") => ret = "ok"

\* C19: every window ID in the registry was returned by a successful
\* detector call of an open-and-track flow and written by a successful
\* upsert; the registry starts empty and no other step adds an entry.
C19_OnlyDetectedAreTracked ==
    [][~(storedWIDs(research_windows') \subseteq storedWIDs(research_windows)) =>
          /\ pc = "open_track"
          /\ pc' = "idle"
          /\ detResult = "found"
          /\ firefoxWID # <<>>
          /\ storedWIDs(research_windows') =
                storedWIDs(research_windows) \cup {firefoxWID}
          /\ "insert" \notin storeErr']_vars

\* a second detected window has just been registered
C19_Witness ==
    /\ pc = "idle"
    /\ ret = "ok"
    /\ detResult = "found"
    /\ "insert" \notin storeErr
    /\ firefoxWID \in storedWIDs(research_windows)
    /\ Cardinality(research_windows) = 2

\* C20: during a close request, a failure of the registry's membership
\* query or of the delete of the closed window's entry makes the close
\* command fail.
C20_StoreFailureFailsClose ==
    (pc = "idle" /\ storeErr \cap {"count", "delete"} # {}) => ret = "err"

\* C21: in the close flow the entry is deleted only after the window close
\* has succeeded: when the close of a tracked active window fails, the
\* command returns an error and the window's entry is still in the registry.
C21_CloseFailureKeepsEntry ==
    /\ (pc = "idle" /\ cmpLog.op = "contains"
            /\ "xdotool windowclose" \in calls) =>
          /\ ret = "err"
          /\ ActiveIsStored
    /\ pc = "close_remove" =>
          /\ "xdotool windowclose" \in calls
          /\ ActiveIsStored
    /\ cmpLog.op = "remove" => "xdotool windowclose" \in calls

\* the close of a tracked, live Firefox window has failed
C21_Witness ==
    /\ pc = "idle"
    /\ cmpLog.op = "contains"
    /\ "xdotool windowclose" \in calls
    /\ ret = "err"
    /\ ActiveIsStored
    /\ win[WindowOf(activeWID)] = "firefox"

\* C22: once the detector has returned a window, the open operation returns
\* success whatever follows: a failed un-maximize, a failed set-geometry and
\* a failed upsert are only logged, and the upsert is attempted also after
\* a failed un-maximize or set-geometry.
C22_OpenSucceedsAfterDetection ==
    /\ (pc = "idle" /\ detResult = "found") =>
          /\ ret = "ok"
          /\ cmpLog.op = "upsert"
          /\ "insert" \in storeErr \/ firefoxWID \in storedWIDs(research_windows)
    /\ (pc = "open_track") => (detResult = "found" /\ ret = "none")

\* un-maximize, set-geometry and the upsert have all failed, and the
\* command has returned success
C22_Witness ==
    /\ pc = "idle"
    /\ detResult = "found"
    /\ toolErr = {"unmaximize", "geometry"}
    /\ "insert" \in storeErr
    /\ cmpLog.op = "upsert"
    /\ ret = "ok"

\* C26: a tracked window that went away without the close flow is removed
\* by the next close command whose listing and store calls succeed,
\* whichever window is active; after that cleanup every entry left refers
\* to a live window.
C26_DeadEntriesPruned ==
    (recon.ran /\ recon.working) =>
        /\ storedWIDs(research_windows) \subseteq recon.live
        /\ \A i \in WinIdx :
              (HexOf[i] \in recon.before /\ HexOf[i] \notin recon.live) =>
                  ~isTracked(research_windows, DecOf[i])

\* two tracked windows were closed by the user; the close command runs on
\* a window of another application and its cleanup has pruned both
C26_Witness ==
    /\ recon.ran
    /\ recon.working
    /\ Cardinality(recon.before \ recon.live) = 2
    /\ research_windows = {}
    /\ win[WindowOf(activeWID)] = "other"

\* C27: when the window listing fails during the cleanup, the cleanup
\* returns an error and removes no entry; the close flow only logs the
\* error and goes on to the membership check on the unchanged registry.
C27_ListFailureKeepsRegistry ==
    (recon.ran /\ recon.result.err /\ "wmctrl -l" \in calls) =>
        /\ storedWIDs(research_windows) = recon.before
        /\ pc = "close_check"
        /\ ret = "none"
        /\ storeErr = {}

\* the listing failed while the entry of a dead window was in the registry
C27_Witness ==
    /\ recon.ran
    /\ recon.result.err
    /\ "wmctrl -l" \in calls
    /\ pc = "close_check"
    /\ recon.before \ recon.live # {}
    /\ storedWIDs(research_windows) = recon.before

\* C28: when another Firefox window appears while an open-and-track command
\* is polling, the command still detects, and then registers, the window
\* its own launch created (stated for a detected window that was not open
\* at the launch).
C28_DetectsOwnWindow ==
    (pc = "open_position" /\ detResult = "found"
        /\ firefoxWID \notin existedAtLaunch) =>
        /\ ownWin # 0
        /\ firefoxWID = HexOf[ownWin]

(***************************************************************************)
(* window placing: getScreenDimensions and the x position planned from it  *)
(***************************************************************************)
\* the longest text after "dimensions:" that is enumerated, and the most
\* lines xdpyinfo prints before its dimensions line
MaxRestLen == 3
MaxLead == 1

\* the size getScreenDimensions falls back to, the margin kept to the right
\* of the research window, and the default of config.Behavior.WindowWidth
fallbackWidth == 1920
fallbackHeight == 1080
rightMargin == 120
defaultWindowWidth == 650

\* the characters of the enumerated lines: a space, two digits, the "x"
\* between width and height, and a letter that is neither
Digits == {"1", "2"}
GeoAlphabet == {" ", "x", "p"} \cup Digits

\* a line of xdpyinfo's output: whether it contains "dimensions:", whether
\* its text up to there matches the format's "  dimensions:", and its text
\* after it
OtherLine == [dims |-> FALSE, head |-> FALSE, rest |-> <<>>]

DimensionRests ==
    UNION {[1..n -> GeoAlphabet] : n \in 0..MaxRestLen}
        \cup {<<" ", " ", "1", "2", "x", "2", "1", " ", "p">>,
              <<" ", "1", "2", "1", "x", " ", "p">>}

DimensionLines ==
    {[dims |-> TRUE, head |-> h, rest |-> r] : h \in BOOLEAN, r \in DimensionRests}

\* xdpyinfo as printed on a screen of 12x21 pixels
GoodLine ==
    [dims |-> TRUE, head |-> TRUE,
     rest |-> <<" ", " ", "1", "2", "x", "2", "1", " ", "p">>]

\* what xdpyinfo can do: fail, or print some lines, then perhaps a line
\* with "dimensions:", then perhaps a second such line
XdpyOutcomes ==
    {[exit |-> "fail", lines |-> <<>>]} \cup
    {[exit |-> "ok", lines |-> [k \in 1..n |-> OtherLine] \o d \o t] :
        n \in 0..MaxLead,
        d \in {<<>>} \cup {<<l>> : l \in DimensionLines},
        t \in {<<>>, <<GoodLine>>}}

\* the scanner drops the spaces in front of a number
RECURSIVE skipSpace(_)
skipSpace(s) ==
    IF s # <<>> /\ Head(s) = " " THEN skipSpace(Tail(s)) ELSE s

\* the number of digits s starts with
RECURSIVE digitRun(_)
digitRun(s) ==
    IF s # <<>> /\ Head(s) \in Digits THEN 1 + digitRun(Tail(s)) ELSE 0

\* the value of a run of decimal digits
RECURSIVE decimal(_)
decimal(s) ==
    IF s = <<>> THEN 0
    ELSE 10 * decimal(SubSeq(s, 1, Len(s) - 1)) + (IF s[Len(s)] = "1" THEN 1 ELSE 2)

\* the verb %d: spaces are skipped, then at least one digit is read
scanInt(s) ==
    LET t == skipSpace(s)
        n == digitRun(t)
    IN  [ok |-> n > 0, value |-> decimal(SubSeq(t, 1, n)),
         rest |-> SubSeq(t, n + 1, Len(t))]

\* fmt.Sscanf(line, "  dimensions:    %dx%d", &width, &height): the scan
\* stops at the first thing that does not match, and what it has stored by
\* then stays stored
Sscanf(line, width, height) ==
    IF ~line.head THEN [width |-> width, height |-> height]
    ELSE LET w == scanInt(line.rest)
         IN  IF ~w.ok THEN [width |-> width, height |-> height]
             ELSE IF w.rest = <<>> \/ Head(w.rest) # "x"
             THEN [width |-> w.value, height |-> height]
             ELSE LET h == scanInt(Tail(w.rest))
                  IN  [width |-> w.value,
                       height |-> IF h.ok THEN h.value ELSE height]

\* getScreenDimensions: the fallback when xdpyinfo fails or prints no line
\* with "dimensions:"; otherwise whatever the scan of the first such line
\* has stored in the named results, which start at 0, its error ignored
getScreenDimensions(out) ==
    LET ds == {k \in 1..Len(out.lines) : out.lines[k].dims}
    IN  IF out.exit # "ok" \/ ds = {}
        THEN [width |-> fallbackWidth, height |-> fallbackHeight]
        ELSE Sscanf(out.lines[CHOOSE k \in ds : \A j \in ds : k <= j], 0, 0)

\* a window is about to be placed
InitGeometry ==
    /\ xdpy \in XdpyOutcomes
    /\ windowWidth \in {defaultWindowWidth, 800}
    /\ geoPc = "start"
    /\ screenWidth = 0
    /\ screenHeight = 0
    /\ xPos = 0
    /\ SearchIdle
    /\ EnginesIdle
    /\ InitMain
    /\ InitCapIdle
    /\ research_windows = {}
    /\ now = 0
    /\ regOp = NoOp
    /\ nIn = <<>>
    /\ nRef = NoNum
    /\ nOut = <<>>

\* screenWidth, _ := getScreenDimensions()
GetScreenDimensions ==
    /\ geoPc = "start"
    /\ LET d == getScreenDimensions(xdpy)
       IN  /\ screenWidth' = d.width
           /\ screenHeight' = d.height
    /\ geoPc' = "plan"
    /\ UNCHANGED <<xdpy, windowWidth, xPos, srchVars, engVars,
                   normVars, regVars, deskVars, capVars>>

\* xPos := screenWidth - config.Behavior.WindowWidth - rightMargin
PlanPosition ==
    /\ geoPc = "plan"
    /\ xPos' = screenWidth - windowWidth - rightMargin
    /\ geoPc' = "done"
    /\ UNCHANGED <<xdpy, windowWidth, screenWidth, screenHeight, srchVars,
                   engVars, normVars, regVars, deskVars, capVars>>

NextGeometry == GetScreenDimensions \/ PlanPosition

SpecGeometry == InitGeometry /\ [][NextGeometry]_vars

\* the first line with "dimensions:" shows a size: after the format's
\* prefix and spaces, digits, an "x", then digits (after spaces, which the
\* scanner lets pass)
ShowsSize(line) ==
    /\ line.head
    /\ LET t == skipSpace(line.rest)
       IN  \E i \in 1..Len(t) :
              /\ \A k \in 1..i : t[k] \in Digits
              /\ i < Len(t) /\ t[i + 1] = "x"
              /\ digitRun(skipSpace(SubSeq(t, i + 2, Len(t)))) > 0

\* the display-info query gives a usable size
HasUsableSize(out) ==
    /\ out.exit = "ok"
    /\ \E k \in 1..Len(out.lines) :
          /\ out.lines[k].dims
          /\ \A j \in 1..(k - 1) : ~out.lines[j].dims
          /\ ShowsSize(out.lines[k])

\* C23: getScreenDimensions returns 1920x1080 whenever the display-info
\* query gives no usable size (the command fails, prints no dimensions
\* line, or prints one that does not parse as WxH); it never returns a zero
\* or half-parsed size, and the planned x position is the returned width
\* minus the window width minus 120.
C23_FallbackOnUnusableSize ==
    geoPc # "start" =>
        /\ ~HasUsableSize(xdpy) =>
              /\ screenWidth = fallbackWidth
              /\ screenHeight = fallbackHeight
        /\ screenWidth > 0
        /\ screenHeight > 0
        /\ geoPc = "done" => xPos = screenWidth - windowWidth - rightMargin

\* C23, the part that holds: a failing command and an output with no
\* dimensions line give 1920x1080, a line showing a size gives that size,
\* and the x position is planned from whatever width was returned.
C23_FallbackWhenNoLine ==
    geoPc # "start" =>
        /\ (xdpy.exit # "ok" \/ \A k \in 1..Len(xdpy.lines) : ~xdpy.lines[k].dims) =>
              /\ screenWidth = fallbackWidth
              /\ screenHeight = fallbackHeight
        /\ HasUsableSize(xdpy) => (screenWidth > 0 /\ screenHeight > 0)
        /\ geoPc = "done" => xPos = screenWidth - windowWidth - rightMargin

(***************************************************************************)
(* the search command: capture or --empty, then handleSearch               *)
(***************************************************************************)
\* what the manual query prompt (dmenu) can do: fail, or print what was typed
PromptOutcomes ==
    {[exit |-> "fail", out |-> <<>>]} \cup
    {[exit |-> "ok", out |-> t] : t \in {<<>>, <<" ", "\n">>, <<"f">>, <<" ", "o", "\n">>}}

\* a capture that has returned an error
CaptureFailed == capOut.err \notin {"none", "pending"}

\* the search command is started, with or without --empty
InitSearch ==
    /\ selMethod \in {loadSelectionMethod(m) : m \in ConfigMethods}
    /\ xsel \in [{"primary", "clipboard"} -> SelOutcomes]
    /\ CaptureIdle
    /\ emptyFlag \in BOOLEAN
    /\ srchPc = "start"
    /\ query = <<>>
    /\ triggerMethod = "none"
    /\ srchRet = "none"
    /\ prompted = FALSE
    /\ GeometryIdle
    /\ EnginesIdle
    /\ InitMain
    /\ research_windows = {}
    /\ now = 0
    /\ regOp = NoOp
    /\ nIn = <<>>
    /\ nRef = NoNum
    /\ nOut = <<>>

\* RunE up to the capture: ensureConfigAndDB, whose error ends the command;
\* with --empty the query is empty and the trigger manual, with no capture
SearchRun ==
    /\ srchPc = "start"
    /\ \E ready \in BOOLEAN :
          IF ~ready
          THEN /\ srchRet' = "setup failed"
               /\ srchPc' = "done"
               /\ UNCHANGED <<query, triggerMethod>>
          ELSE IF emptyFlag
          THEN /\ query' = <<>>
               /\ triggerMethod' = "manual"
               /\ srchPc' = "menu"
               /\ UNCHANGED srchRet
          ELSE /\ srchPc' = "capture"
               /\ UNCHANGED <<query, triggerMethod, srchRet>>
    /\ UNCHANGED <<emptyFlag, prompted, geoVars, engVars,
                   normVars, regVars, deskVars, capVars>>

\* captureSelectionSafely runs inside the command
SearchCapturing ==
    /\ srchPc = "capture"
    /\ NextCapture

\* a capture error that ends the command
CaptureReturns_Aborts ==
    /\ srchPc = "capture"
    /\ capPc = "done"
    /\ IF CaptureFailed
       THEN /\ srchRet' = "capture failed"
            /\ srchPc' = "done"
            /\ UNCHANGED <<query, triggerMethod>>
       ELSE /\ query' = capOut.text
            /\ triggerMethod' = "selection"
            /\ srchPc' = "menu"
            /\ UNCHANGED srchRet
    /\ UNCHANGED <<emptyFlag, prompted, geoVars, engVars,
                   normVars, regVars, deskVars, capVars>>

\* captureSelectionSafely has returned: its error is logged and the command
\* goes on with an empty query and the trigger manual; its text is the query
\* and the trigger is selection
CaptureReturns ==
    /\ srchPc = "capture"
    /\ capPc = "done"
    /\ IF CaptureFailed
       THEN /\ query' = <<>>
            /\ triggerMethod' = "manual"
       ELSE /\ query' = capOut.text
            /\ triggerMethod' = "selection"
    /\ srchPc' = "menu"
    /\ UNCHANGED <<emptyFlag, srchRet, prompted, geoVars, engVars,
                   normVars, regVars, deskVars, capVars>>

\* handleSearch, showSearchMenu: a failed or cancelled engine menu ends the
\* command; an empty query goes on to the prompt
ShowMenu ==
    /\ srchPc = "menu"
    /\ \E chosen \in BOOLEAN :
          IF ~chosen
          THEN /\ srchRet' = "menu selection failed"
               /\ srchPc' = "done"
          ELSE /\ srchPc' = IF query = <<>> THEN "prompt" ELSE "open"
               /\ UNCHANGED srchRet
    /\ UNCHANGED <<emptyFlag, query, triggerMethod, prompted, geoVars, engVars,
                   normVars, regVars, deskVars, capVars>>

\* handleSearch, the prompt "Enter search query:": a failed dmenu and an
\* answer that is empty once trimmed end the command
QueryPrompt ==
    /\ srchPc = "prompt"
    /\ prompted' = TRUE
    /\ \E p \in PromptOutcomes :
          IF p.exit # "ok"
          THEN /\ srchRet' = "query input failed"
               /\ srchPc' = "done"
               /\ UNCHANGED query
          ELSE IF TrimSpace(p.out) = <<>>
          THEN /\ srchRet' = "empty query, aborting"
               /\ srchPc' = "done"
               /\ query' = <<>>
          ELSE /\ query' = TrimSpace(p.out)
               /\ srchPc' = "open"
               /\ UNCHANGED srchRet
    /\ UNCHANGED <<emptyFlag, triggerMethod, geoVars, engVars,
                   normVars, regVars, deskVars, capVars>>

\* handleSearch, the end: logSearch (its error is only logged), then
\* openBrowserInSideWindow, whose error is the command's
OpenBrowser ==
    /\ srchPc = "open"
    /\ \E opened \in BOOLEAN :
          srchRet' = IF opened THEN "ok" ELSE "failed to open browser"
    /\ srchPc' = "done"
    /\ UNCHANGED <<emptyFlag, query, triggerMethod, prompted, geoVars, engVars,
                   normVars, regVars, deskVars, capVars>>

NextSearch ==
    \/ SearchRun
    \/ SearchCapturing
    \/ CaptureReturns
    \/ ShowMenu
    \/ QueryPrompt
    \/ OpenBrowser

SpecSearch == InitSearch /\ [][NextSearch]_vars

\* C24: in the search command a failed capture (manual policy, empty
\* selection, no selection, xsel error) never ends the command: it goes on
\* with the trigger method "manual" to the engine menu and, once an engine
\* is chosen, to the manual query prompt; the trigger method is "selection"
\* exactly when the capture succeeded; with --empty no selection is read.
C24_CaptureFailureFallsBack ==
    /\ (~emptyFlag /\ CaptureFailed /\ srchPc # "capture") =>
          /\ triggerMethod = "manual"
          /\ srchPc = "menu" => query = <<>>
          /\ srchPc = "open" => prompted
          /\ srchPc = "done" =>
                (srchRet = "menu selection failed" \/ prompted)
    /\ triggerMethod # "none" =>
          (triggerMethod = "selection" <=> (~emptyFlag /\ capOut.err = "none"))
    /\ emptyFlag => (capReads = <<>> /\ capPc = "idle" /\ capOut = NoCapture)
    /\ prompted => triggerMethod = "manual"

\* both selections failed under auto, and the query typed at the prompt is
\* about to be searched
C24_Witness ==
    /\ ~emptyFlag
    /\ capOut.err = "no text"
    /\ Len(capReads) = 2
    /\ srchPc = "open"
    /\ prompted
    /\ triggerMethod = "manual"
    /\ query = <<"o">>

(***************************************************************************)
(* engine management: add-engine, edit-engine and remove-engine            *)
(***************************************************************************)
\* the most engines in the configuration at the start, and the number of
\* commands run against it
MaxEngines == 2
MaxEngineRuns == 3

\* keys as typed, character by character: two keys of one character, one of
\* two (a file edited by hand may hold it; the commands refuse to set it)
\* and, as an argument, the empty key
KeyArgs == {<<"k">>, <<"g">>, <<"k", "g">>, <<>>}
FileKeys == KeyArgs \ {<<>>}
EngineNames == {"Kagi", "Wiki"}

\* a SearchEngine of the file; its URL, which every command checks before
\* it stores it, is left out
Engines == [key : FileKeys, name : EngineNames]

\* the Key of every engine of a list
keysOf(engines) == {engines[k].key : k \in 1..Len(engines)}

\* no two engines of the list have the same Key
DistinctKeys(engines) ==
    \A i, j \in 1..Len(engines) : engines[i].key = engines[j].key => i = j

\* the engine lists a configuration file can start with
StartEngines ==
    {e \in UNION {[1..n -> Engines] : n \in 0..MaxEngines} : DistinctKeys(e)}

\* the list without the engines that have the key, in order
RECURSIVE withoutKey(_, _)
withoutKey(engines, key) ==
    IF engines = <<>> THEN <<>>
    ELSE IF Head(engines).key = key THEN withoutKey(Tail(engines), key)
    ELSE <<Head(engines)>> \o withoutKey(Tail(engines), key)

\* add-engine after loadConfig: the key is one character, the URL has the
\* placeholder, no engine has the key; then the engine is appended
addEngine(engines, name, urlOk, key) ==
    IF Len(key) # 1 THEN [err |-> "key must be a single character", engines |-> engines]
    ELSE IF ~urlOk THEN [err |-> "URL must contain %s", engines |-> engines]
    ELSE IF key \in keysOf(engines) THEN [err |-> "key already exists", engines |-> engines]
    ELSE [err |-> "none", engines |-> Append(engines, [key |-> key, name |-> name])]

\* remove-engine after loadConfig: every engine with the key is dropped, and
\* it is an error when there was none
removeEngine(engines, key) ==
    IF key \notin keysOf(engines) THEN [err |-> "no search engine found", engines |-> engines]
    ELSE [err |-> "none", engines |-> withoutKey(engines, key)]

\* an edit that stores the new key whatever keys the other engines have
editEngine_NoConflictCheck(engines, oldKey, newName, urlOk, newKey) ==
    IF Len(newKey) # 1 THEN [err |-> "key must be a single character", engines |-> engines]
    ELSE IF ~urlOk THEN [err |-> "URL must contain %s", engines |-> engines]
    ELSE IF oldKey \notin keysOf(engines)
    THEN [err |-> "no search engine found", engines |-> engines]
    ELSE LET i == CHOOSE k \in 1..Len(engines) :
                     /\ engines[k].key = oldKey
                     /\ \A j \in 1..(k - 1) : engines[j].key # oldKey
         IN  [err |-> "none",
              engines |-> [engines EXCEPT ![i] = [key |-> newKey, name |-> newName]]]

\* edit-engine after loadConfig: the new key is one character, the URL has
\* the placeholder; the first engine with the old key is replaced, unless
\* the new key differs from the old one and another engine has it
editEngine(engines, oldKey, newName, urlOk, newKey) ==
    IF Len(newKey) # 1 THEN [err |-> "key must be a single character", engines |-> engines]
    ELSE IF ~urlOk THEN [err |-> "URL must contain %s", engines |-> engines]
    ELSE IF oldKey \notin keysOf(engines)
    THEN [err |-> "no search engine found", engines |-> engines]
    ELSE IF newKey # oldKey /\ \E k \in 1..Len(engines) :
                                  engines[k].key = newKey /\ engines[k].key # oldKey
    THEN [err |-> "key already exists", engines |-> engines]
    ELSE LET i == CHOOSE k \in 1..Len(engines) :
                     /\ engines[k].key = oldKey
                     /\ \A j \in 1..(k - 1) : engines[j].key # oldKey
         IN  [err |-> "none",
              engines |-> [engines EXCEPT ![i] = [key |-> newKey, name |-> newName]]]

\* the end of a command: loadConfig's error comes first, then the command's
\* own; saveConfig writes the file, and when it fails the file stays as it
\* was and the command fails
finishEngineCmd(cmd, key, newKey, loadOk, saveOk, r) ==
    LET err == IF ~loadOk THEN "can't read config file"
               ELSE IF r.err # "none" THEN r.err
               ELSE IF ~saveOk THEN "failed to save config"
               ELSE "none"
    IN  /\ enginesBefore' = savedEngines
        /\ savedEngines' = IF err = "none" THEN r.engines ELSE savedEngines
        /\ engineCmd' = [cmd |-> cmd, ok |-> err = "none", err |-> err,
                         key |-> key, newKey |-> newKey]
        /\ engineRuns' = engineRuns + 1
        /\ UNCHANGED <<srchVars, geoVars, normVars, regVars, deskVars, capVars>>

\* a configuration file with distinct keys, and no command run yet
InitEngines ==
    /\ savedEngines \in StartEngines
    /\ enginesBefore = savedEngines
    /\ engineCmd = NoEngineCmd
    /\ engineRuns = 0
    /\ SearchIdle
    /\ GeometryIdle
    /\ InitMain
    /\ InitCapIdle
    /\ research_windows = {}
    /\ now = 0
    /\ regOp = NoOp
    /\ nIn = <<>>
    /\ nRef = NoNum
    /\ nOut = <<>>

\* rabbithole add-engine name url key
AddEngine ==
    /\ engineRuns < MaxEngineRuns
    /\ \E name \in EngineNames, key \in KeyArgs, urlOk, loadOk, saveOk \in BOOLEAN :
          finishEngineCmd("add", key, key, loadOk, saveOk,
                          addEngine(savedEngines, name, urlOk, key))

\* rabbithole remove-engine key
RemoveEngine ==
    /\ engineRuns < MaxEngineRuns
    /\ \E key \in KeyArgs, loadOk, saveOk \in BOOLEAN :
          finishEngineCmd("remove", key, key, loadOk, saveOk,
                          removeEngine(savedEngines, key))

\* rabbithole edit-engine key name url new-key
EditEngine ==
    /\ engineRuns < MaxEngineRuns
    /\ \E oldKey, newKey \in KeyArgs, newName \in EngineNames,
          urlOk, loadOk, saveOk \in BOOLEAN :
          finishEngineCmd("edit", oldKey, newKey, loadOk, saveOk,
                          editEngine(savedEngines, oldKey, newName, urlOk, newKey))

NextEngines == AddEngine \/ RemoveEngine \/ EditEngine

SpecEngines == InitEngines /\ [][NextEngines]_vars

\* the command left the file as it found it, and failed
FailedUnchanged == ~engineCmd.ok /\ savedEngines = enginesBefore

\* C25: from a configuration with pairwise distinct engine keys, any
\* sequence of add-engine, edit-engine and remove-engine commands leaves the
\* saved keys pairwise distinct; a command that would create a duplicate
\* key, or that names a key no engine has (edit, remove), fails and leaves
\* the saved configuration unchanged.
C25_EngineKeysStayDistinct ==
    /\ DistinctKeys(savedEngines)
    /\ (engineCmd.cmd = "add" /\ engineCmd.key \in keysOf(enginesBefore)) =>
          FailedUnchanged
    /\ (engineCmd.cmd = "edit" /\ engineCmd.newKey # engineCmd.key
          /\ engineCmd.newKey \in keysOf(enginesBefore)) => FailedUnchanged
    /\ (engineCmd.cmd \in {"edit", "remove"}
          /\ engineCmd.key \notin keysOf(enginesBefore)) => FailedUnchanged

\* an edit that would give an engine the key of another is refused, after
\* earlier commands have changed the file
C25_Witness ==
    /\ engineRuns = MaxEngineRuns
    /\ engineCmd.cmd = "edit"
    /\ engineCmd.err = "key already exists"
    /\ engineCmd.key = <<"k", "g">>
    /\ engineCmd.newKey = <<"g">>
    /\ FailedUnchanged
    /\ Len(savedEngines) = 3

=========================================================================
